---- MODULE Spec2Model ----
(***************************************************************************)
(* Agent orchestration core of Rainbow City (backend/app/agent):           *)
(* AIAssistant._process_query_internal drives one user turn through the    *)
(* LLM caller, the uncertainty-triggered Tavily search and the tool        *)
(* invoker.  The Python fragments are those of                             *)
(* docs/ai-tool-coordination.md; the context builder and the failure       *)
(* paths, whose code is not part of the sources, follow the specification. *)
(* The Chinese literals of the code are written in ASCII.                  *)
(***************************************************************************)
EXTENDS Integers, Sequences, FiniteSets, TLC

VARIABLES
    tools,           \* ToolInvoker.tools: registered name -> function
    pc,              \* position of the turn in _process_query_internal
    userMessage,     \* the user's message of this turn
    context,         \* ConversationContext: the ordered messages
    pending,         \* tool call ids appended and not yet answered
    first_response,  \* the active model response (superseded by the re-pass)
    callIdx,         \* index of the next tool_call of the dispatch loop
    executed,        \* tool calls executed in this turn, with their results
    output,          \* the assistant text handed to the caller
    failure,         \* the error that ended the turn, "" when none
    entered,         \* how often each phase has been entered
    nModel,          \* LLMCaller.invoke calls made
    nSearch,         \* client_tavily.search calls made
    nDetect,         \* uncertainty detections run
    events,          \* log of tool invocations and result appends
    firstHadTools,   \* whether the first pass returned tool calls
    firstContent,    \* content of the first pass response
    searchStatus,    \* "none", "ok" or "failed": how the search ended
    lastOp,          \* the last context or registry operation applied on its own
    idCount,         \* tool call ids issued so far in the cycle
    tool_defs,       \* ToolInvoker: the registered definitions, in insertion order
    calls,           \* the tools argument of every LLMCaller.invoke call made
    result,          \* what the turn returns to its caller
    conc,            \* two turns served by one AIAssistant
    lastReg,         \* the last register_tool call made and what it found
    responses,       \* the content of every response LLMCaller.invoke returned
    load,            \* chat UI: isLoading, its timers and the pending requests
    chat,            \* chat UI: conversations, their messages and pending replies
    typing,          \* chat UI: the typewriter effect on the messages
    oauth            \* the OAuthCallback component

vars == <<tools, pc, userMessage, context, pending, first_response, callIdx,
          executed, output, failure, entered, nModel, nSearch, nDetect,
          events, firstHadTools, firstContent, searchStatus, lastOp, idCount,
          tool_defs, calls, result, conc, lastReg, responses, load, chat, typing,
          oauth>>

\* The state of the frontend components.
uiVars == <<load, chat, typing, oauth>>

\* What no step of a turn changes.
fixedVars == <<tools, lastOp, idCount, tool_defs, conc, lastReg, uiVars>>

\* Largest number of tool calls the model returns in one response.
MaxCalls == 2

\* Largest number of messages of a context built operation by operation.
MaxCtxLen == 5

\* Largest number of requests handleSubmit sends in a behaviour of the chat UI.
MaxRequests == 2

\* Largest number of assistant messages added with the typing effect.
MaxTyped == 2

\* Largest number of times the effect of OAuthCallback runs.
MaxEffectRuns == 3

\* Largest number of messages handleSubmit sends as the conversations change.
MaxSent == 2

-----------------------------------------------------------------------------
\* Text helpers

\* Python's `p in s` on strings.
Contains(s, p) ==
    \E k \in 1..(Len(s) - Len(p) + 1) : SubSeq(s, k, k + Len(p) - 1) = p

UpperChars == <<"A", "B", "C", "D", "E", "F", "G", "H", "I", "J", "K", "L", "M",
                "N", "O", "P", "Q", "R", "S", "T", "U", "V", "W", "X", "Y", "Z">>
LowerChars == <<"a", "b", "c", "d", "e", "f", "g", "h", "i", "j", "k", "l", "m",
                "n", "o", "p", "q", "r", "s", "t", "u", "v", "w", "x", "y", "z">>

LowerChar(c) ==
    IF \E k \in 1..Len(UpperChars) : UpperChars[k] = c
    THEN LowerChars[CHOOSE k \in 1..Len(UpperChars) : UpperChars[k] = c]
    ELSE c

\* Python's str.lower().
RECURSIVE Lower(_)
Lower(s) ==
    IF Len(s) = 0 THEN ""
    ELSE LowerChar(SubSeq(s, 1, 1)) \o Lower(SubSeq(s, 2, Len(s)))

DigitChars == <<"0", "1", "2", "3", "4", "5", "6", "7", "8", "9">>

\* Python's str() of a non-negative int.
RECURSIVE IntToStr(_)
IntToStr(n) ==
    IF n < 10 THEN DigitChars[n + 1]
    ELSE IntToStr(n \div 10) \o DigitChars[(n % 10) + 1]

\* Python's str(result) for the results the built-in tools return.
PyStr(v) == IF v.t = "int" THEN IntToStr(v.n) ELSE v.s

-----------------------------------------------------------------------------
\* ToolInvoker

\* Tools registered by AIAssistant._register_default_tools.
DefaultTools == [n \in {"get_weather", "generate_ai_id"} |-> n]

\* A parameter of a tool as register_tool is given it.
Param(name, type, optional) == [name |-> name, type |-> type, optional |-> optional]

\* What register_tool keeps of a tool besides its function.
ToolDef(name, description, parameters) ==
    [name |-> name, description |-> description, parameters |-> parameters]

\* The definitions of the default tools, in the order of their registration.
DefaultToolDefs ==
    <<ToolDef("get_weather", "weather of a city on a date",
              <<Param("city", "string", FALSE), Param("date", "string", TRUE)>>),
      ToolDef("generate_ai_id", "generates a unique AI-ID", <<>>)>>

IsRequired(prm) == ~prm.optional

\* A definition in the OpenAI function-calling format.
WireDefinition(d) ==
    [type |-> "function",
     function |->
        [name |-> d.name,
         description |-> d.description,
         parameters |->
            [type |-> "object",
             properties |-> [k \in 1..Len(d.parameters) |->
                                [name |-> d.parameters[k].name,
                                 type |-> d.parameters[k].type]],
             required |-> [k \in 1..Len(SelectSeq(d.parameters, IsRequired)) |->
                                SelectSeq(d.parameters, IsRequired)[k].name]]]]

\* register_tool replacing the registration of a name already registered.
RegisterToolOverwrite(tls, defs, name, func, description, parameters) ==
    [err |-> "",
     tools |-> [n \in DOMAIN tls \cup {name} |-> IF n = name THEN func ELSE tls[n]],
     tool_defs |-> Append(defs, ToolDef(name, description, parameters))]

\* register(name, handler, description, parameterSchema)
RegisterTool(tls, defs, name, func, description, parameters) ==
    IF name \in DOMAIN tls
    THEN [err |-> "DuplicateToolError", tools |-> tls, tool_defs |-> defs]
    ELSE [err |-> "",
          tools |-> [n \in DOMAIN tls \cup {name} |->
                        IF n = name THEN func ELSE tls[n]],
          tool_defs |-> Append(defs, ToolDef(name, description, parameters))]

NoReg ==
    [op |-> "none", name |-> "", func |-> "", registered |-> FALSE, err |-> "",
     tools |-> DefaultTools, tool_defs |-> DefaultToolDefs]

\* The names of the tools of a list of definitions in the wire format.
WireNames(defs) == [k \in 1..Len(defs) |-> defs[k].function.name]

\* get_tool_definitions listing the tools last registered first.
GetToolDefinitionsReversed ==
    [k \in 1..Len(tool_defs) |-> WireDefinition(tool_defs[Len(tool_defs) + 1 - k])]

\* ToolInvoker.get_tool_definitions()
GetToolDefinitions ==
    [k \in 1..Len(tool_defs) |-> WireDefinition(tool_defs[k])]

\* The tools argument of LLMCaller.invoke: given, or left out.
WithTools(defs) == [given |-> TRUE, defs |-> defs]

\* An invoke that is given the tool definitions although its caller names none.
NoToolsArgWithDefs == WithTools(GetToolDefinitions)

\* LLMCaller.invoke(messages): no tools argument.
NoToolsArg == [given |-> FALSE, defs |-> <<>>]

\* A value a tool function returns.
StrVal(s) == [t |-> "str", s |-> s, n |-> 0]
IntVal(n) == [t |-> "int", s |-> "", n |-> n]

\* What a tool function does when called: it returns a value or raises.
Return(v) == [kind |-> "return", val |-> v, msg |-> ""]
Raise(m) == [kind |-> "raise", val |-> StrVal(""), msg |-> m]
HandlerOutcomes ==
    {Return(StrVal("AI-7F3D2E1A")), Return(IntVal(42)), Raise("bad input")}

\* Result of a call that may raise: raised = "" when it returned `text`.
Returned(text) == [raised |-> "", text |-> text]
Raised(err) == [raised |-> err, text |-> ""]

ToolMissingText(tool_name) == "tool " \o tool_name \o " does not exist"
ToolFailedPrefix == "tool call failed: "

\* invoke_tool without its try/except: a failure of the function escapes.
InvokeToolUncaught(tool_name, outcome) ==
    IF tool_name \notin DOMAIN tools
    THEN Returned(ToolMissingText(tool_name))
    ELSE IF outcome.kind = "return"
         THEN Returned(PyStr(outcome.val))
         ELSE Raised("ToolExecutionError")

\* invoke_tool whose except branch drops str(e) from the text.
InvokeToolNoReason(tool_name, outcome) ==
    IF tool_name \notin DOMAIN tools
    THEN Returned(ToolMissingText(tool_name))
    ELSE IF outcome.kind = "return"
         THEN Returned(PyStr(outcome.val))
         ELSE Returned(ToolFailedPrefix)

\* invoke_tool without the membership test: the lookup fails inside the try.
InvokeToolNoLookup(tool_name, outcome) ==
    IF tool_name \notin DOMAIN tools
    THEN Returned(ToolFailedPrefix \o tool_name)
    ELSE IF outcome.kind = "return"
         THEN Returned(PyStr(outcome.val))
         ELSE Returned(ToolFailedPrefix \o outcome.msg)

\* ToolInvoker.invoke_tool(tool_name, **kwargs) -> str
InvokeTool(tool_name, outcome) ==
    IF tool_name \notin DOMAIN tools
    THEN Returned(ToolMissingText(tool_name))
    ELSE IF outcome.kind = "return"
         THEN Returned(PyStr(outcome.val))
         ELSE Returned(ToolFailedPrefix \o outcome.msg)

-----------------------------------------------------------------------------
\* ContextBuilder (ContextAssembler)

Msg(role, content, toolCallId, name, toolCalls) ==
    [role |-> role, content |-> content, toolCallId |-> toolCallId,
     name |-> name, toolCalls |-> toolCalls]

CallIds(toolCalls) == {toolCalls[k].id : k \in 1..Len(toolCalls)}

\* initialize(systemPrompt, userMessage)
Initialize(systemPrompt, userMsg) ==
    <<Msg("system", systemPrompt, "", "", <<>>),
      Msg("user", userMsg, "", "", <<>>)>>

\* appendAssistant(content, toolCalls?)
AppendAssistant(ctx, content, toolCalls) ==
    Append(ctx, Msg("assistant", content, "", "", toolCalls))

\* The ids a new assistant message leaves to be answered.
PendingAfterAssistant(pend, toolCalls) == pend \cup CallIds(toolCalls)

\* appendSystemNote putting the note right after the user message.
AppendSystemNoteInsert(ctx, text) ==
    SubSeq(ctx, 1, 2) \o <<Msg("system", text, "", "", <<>>)>>
        \o SubSeq(ctx, 3, Len(ctx))

\* appendSystemNote(text)
AppendSystemNote(ctx, text) ==
    Append(ctx, Msg("system", text, "", "", <<>>))

\* appendToolResult without the test of the id.
AppendToolResultUnchecked(ctx, pend, toolCallId, name, resultText) ==
    [err |-> "",
     context |-> Append(ctx, Msg("tool", resultText, toolCallId, name, <<>>)),
     pending |-> pend \ {toolCallId}]

\* appendToolResult(toolCallId, name, resultText), called as
\* update_context_with_tool_result(tool_name, tool_result, tool_call_id)
AppendToolResult(ctx, pend, toolCallId, name, resultText) ==
    IF toolCallId \in pend
    THEN [err |-> "",
          context |-> Append(ctx, Msg("tool", resultText, toolCallId, name, <<>>)),
          pending |-> pend \ {toolCallId}]
    ELSE [err |-> "DanglingToolResultError", context |-> ctx, pending |-> pend]

-----------------------------------------------------------------------------
\* Uncertainty detection and Tavily search

\* uncertainty_phrases (the code's Chinese phrases, in ASCII).
uncertainty_phrases == <<"i don't know", "cannot provide">>

\* matched_phrases without the lower-casing of the content.
MatchedPhrasesCaseSensitive(content) ==
    {k \in 1..Len(uncertainty_phrases) : Contains(content, uncertainty_phrases[k])}

\* matched_phrases of a response content: the content is lower-cased, then
\* every phrase is looked up in it.
MatchedPhrases(content) ==
    {k \in 1..Len(uncertainty_phrases) :
        Contains(Lower(content), uncertainty_phrases[k])}

\* search_message["content"] built from a search result.
ToSystemNote(search_query, digest) ==
    "According to the latest web search results, this is the information about '"
        \o search_query \o "': " \o digest

-----------------------------------------------------------------------------
\* The environment: user, model, search provider

SystemPrompt == "You are the Rainbow City assistant."
UserMessages == {"Weather in Paris tomorrow?", "Generate an AI-ID"}
Contents == {"", "Paris.", "I DON'T KNOW.", "I don't know and cannot provide it."}
CallNames == {"generate_ai_id", "launch_rocket"}
Digests == {"Sunny, 21C"}
ApologyText == "Sorry, the request could not be processed."

ToolCallsOf(names) ==
    [k \in 1..Len(names) |->
        [id |-> "call_" \o IntToStr(k), name |-> names[k], arguments |-> "{}"]]

\* Every list of at most MaxCalls tool calls; ids are unique within a list.
ToolCallLists ==
    {ToolCallsOf(names) : names \in UNION {[1..n -> CallNames] : n \in 0..MaxCalls}}

\* Every response LLMCaller.invoke may return.
ModelResponses == [content : Contents, tool_calls : ToolCallLists]

Phases == {"FirstPass", "Augmenting", "SecondPass", "ToolDispatch", "FinalPass"}

-----------------------------------------------------------------------------
\* AIAssistant._process_query_internal

\* The turns served at the same time by one AIAssistant.
Turns == {1, 2}

TurnInit ==
    [pc |-> "Init", base |-> 0, defs |-> NoToolsArg, sent |-> <<>>, out |-> ""]

\* cb: the conversation history of self.context_builder, every message with
\* the turn that added it; t: the position and the locals of each turn.
ConcInit == [cb |-> <<>>, t |-> [t \in Turns |-> TurnInit]]

NoResult ==
    [ok |-> FALSE, assistantText |-> "", toolCallsExecuted |-> <<>>,
     updatedHistory |-> <<>>]

\* tool_calls of the response of POST /api/chat/agent, keeping the first call only.
ResponseToolCallsFirstOnly(exec) ==
    [k \in 1..(IF Len(exec) > 0 THEN 1 ELSE 0) |->
        [id |-> exec[k].id, name |-> exec[k].name, parameters |-> exec[k].arguments]]

\* tool_calls of the response of POST /api/chat/agent.
ResponseToolCalls(exec) ==
    [k \in 1..Len(exec) |->
        [id |-> exec[k].id, name |-> exec[k].name, parameters |-> exec[k].arguments]]

\* One more LLMCaller.invoke call, with `toolsArg` as its tools argument.
ModelCalled(toolsArg) ==
    /\ nModel' = nModel + 1
    /\ calls' = Append(calls, toolsArg)

\* The frontend components before any event (their state is defined with
\* their specifications).
NoTimer == -1
IdleRequest ==
    [st |-> "idle", kind |-> "", safetyLeft |-> NoTimer, loadingLeft |-> NoTimer]

\* age: the time for which isLoading has been true; effectLeft: what is left
\* of the safety timer of the isLoading effect of AiChatCore; reqs: the calls
\* of handleSubmit with what is left of their timers; sel: the calls of
\* handleSelectConversation in flight; test: the call of testApiConnection.
\* Times are in milliseconds.
LoadInit ==
    [isLoading |-> FALSE, age |-> 0, effectLeft |-> NoTimer,
     reqs |-> [r \in 1..MaxRequests |-> IdleRequest], sel |-> 0,
     test |-> [st |-> "idle", left |-> NoTimer], lastSubmit |-> "none"]
\* A message of the chat, with the conversation it was written in or loaded
\* for (0: the chat not saved yet, currentConversationId null).
ChatMsg(conv, role, content) == [conv |-> conv, role |-> role, content |-> content]

\* The two messages a new chat starts with.
WelcomeMessages ==
    <<ChatMsg(0, "system", "You are the assistant of Rainbow City."),
      ChatMsg(0, "assistant", "Hello! I am the Rainbow City AI.")>>

\* current: currentConversationId; messages: the messages state; req: the
\* request of handleSubmit in flight, with the conversation that was current
\* when it was submitted; sel: the conversation handleSelectConversation is
\* fetching (0: none).
ChatInit ==
    [current |-> 0, messages |-> WelcomeMessages,
     req |-> [st |-> "idle", conv |-> 0], sel |-> 0, sent |-> 0]
\* The assistant messages added with the typing effect (messages), the
\* currentIndex of the interval that runs for each of them (index; the
\* message has no interval at NoTimer), and whether messages has changed
\* since the typing effect last ran (stale).
TypingInit == [messages |-> <<>>, index |-> <<>>, stale |-> TRUE]
\* The state of a mounted OAuthCallback: its three states, the ref
\* codeProcessed, the position of processOAuthCallback (pc), the delay it is
\* waiting for (timer, in ms), the calls of handleGoogleCallback and
\* handleGithubCallback (called), the values loadingStage was set to
\* (stages), the calls of navigate (navs), the number of runs of the effect
\* (runs) and the time since setError (since).
OAuthInit ==
    [loading |-> TRUE, loadingStage |-> 0, error |-> "null",
     codeProcessed |-> FALSE, pc |-> "mount", timer |-> NoTimer,
     called |-> <<>>, stages |-> <<>>, navs |-> <<>>, runs |-> 0, since |-> 0]

\* LLMCaller.invoke returned a response with `content`.
Responded(content) == responses' = Append(responses, content)

NoOp == [op |-> "none", id |-> "", unanswered |-> FALSE, err |-> "", len |-> 0]

Init ==
    /\ tools = DefaultTools
    /\ pc = "Init"
    /\ userMessage = ""
    /\ context = <<>>
    /\ pending = {}
    /\ first_response = [content |-> "", tool_calls |-> <<>>]
    /\ callIdx = 1
    /\ executed = <<>>
    /\ output = ""
    /\ failure = ""
    /\ entered = [p \in Phases |-> 0]
    /\ nModel = 0
    /\ nSearch = 0
    /\ nDetect = 0
    /\ events = <<>>
    /\ firstHadTools = FALSE
    /\ firstContent = ""
    /\ searchStatus = "none"
    /\ lastOp = NoOp
    /\ idCount = 0
    /\ tool_defs = DefaultToolDefs
    /\ calls = <<>>
    /\ responses = <<>>
    /\ result = NoResult
    /\ conc = ConcInit
    /\ lastReg = NoReg
    /\ load = LoadInit
    /\ chat = ChatInit
    /\ typing = TypingInit
    /\ oauth = OAuthInit

Goto(p) ==
    /\ pc' = p
    /\ entered' = IF p \in Phases THEN [entered EXCEPT ![p] = @ + 1] ELSE entered

\* The turn ends with `content` as the assistant's answer.
Finish(ctx, content) ==
    /\ Goto("Done")
    /\ output' = content
    /\ context' = AppendAssistant(ctx, content, <<>>)
    /\ result' = [ok |-> TRUE, assistantText |-> content,
                  toolCallsExecuted |-> ResponseToolCalls(executed),
                  updatedHistory |-> AppendAssistant(ctx, content, <<>>)]
    /\ UNCHANGED <<pending, callIdx>>

\* if first_response.get("tool_calls"): the dispatch loop starts.
BeginDispatch(resp) ==
    /\ Goto("ToolDispatch")
    /\ context' = AppendAssistant(context, resp.content, resp.tool_calls)
    /\ pending' = PendingAfterAssistant(pending, resp.tool_calls)
    /\ callIdx' = 1
    /\ UNCHANGED <<output, result>>

\* A failing turn that hands the caller what the tools had produced so far.
AbortPartial(err) ==
    /\ Goto("Failed")
    /\ failure' = err
    /\ output' = ApologyText
    /\ result' = [NoResult EXCEPT !.assistantText = ApologyText,
                                  !.toolCallsExecuted = ResponseToolCalls(executed),
                                  !.updatedHistory = context]

\* The turn ends with an error handed to the caller.
Abort(err) ==
    /\ Goto("Failed")
    /\ failure' = err
    /\ output' = ApologyText
    /\ result' = [NoResult EXCEPT !.assistantText = ApologyText]

\* A failed pass that is tried again instead of ending the turn.
ModelUnavailableRetry ==
    /\ ModelCalled(IF pc = "FirstPass" THEN WithTools(GetToolDefinitions) ELSE NoToolsArg)
    /\ failure' = "ModelUnavailableError"
    /\ UNCHANGED <<fixedVars, pc, entered, output, result, userMessage, context, pending,
                   responses,
                   first_response, callIdx, executed, nSearch, nDetect, events,
                   firstHadTools, firstContent, searchStatus>>

\* A pass fails: the error leaves _process_query_internal.
ModelUnavailable ==
    /\ ModelCalled(IF pc = "FirstPass" THEN WithTools(GetToolDefinitions) ELSE NoToolsArg)
    /\ Abort("ModelUnavailableError")
    /\ UNCHANGED <<fixedVars, userMessage, context, pending, first_response,
                   responses,
                   callIdx, executed, nSearch, nDetect, events, firstHadTools,
                   firstContent, searchStatus>>

\* The context is built from the system instructions and the user message.
StartTurn ==
    /\ pc = "Init"
    /\ \E um \in UserMessages :
          /\ userMessage' = um
          /\ context' = Initialize(SystemPrompt, um)
    /\ Goto("FirstPass")
    /\ UNCHANGED <<fixedVars, pending, first_response, callIdx, executed, output, result,
                   failure, nModel, calls, responses, nSearch, nDetect, events, firstHadTools,
                   firstContent, searchStatus>>

\* The first pass without the `if not first_response.get("tool_calls")` test.
FirstPassAlwaysDetect ==
    /\ pc = "FirstPass"
    /\ \E resp \in ModelResponses :
          /\ first_response' = resp
          /\ Responded(resp.content)
          /\ firstHadTools' = (resp.tool_calls # <<>>)
          /\ firstContent' = resp.content
          /\ nDetect' = nDetect + 1
          /\ IF MatchedPhrases(resp.content) # {}
             THEN /\ Goto("Augmenting")
                  /\ UNCHANGED <<context, pending, callIdx, output, result>>
             ELSE IF resp.tool_calls # <<>>
                  THEN BeginDispatch(resp)
                  ELSE Finish(context, resp.content)
    /\ ModelCalled(WithTools(GetToolDefinitions))
    /\ UNCHANGED <<fixedVars, userMessage, executed, failure, nSearch, events,
                   searchStatus>>

\* A first pass that searches whenever the answer carries no tool calls.
FirstPassAlwaysSearch ==
    /\ pc = "FirstPass"
    /\ \E resp \in ModelResponses :
          /\ first_response' = resp
          /\ Responded(resp.content)
          /\ firstHadTools' = (resp.tool_calls # <<>>)
          /\ firstContent' = resp.content
          /\ IF resp.tool_calls # <<>>
             THEN /\ BeginDispatch(resp)
                  /\ UNCHANGED nDetect
             ELSE /\ nDetect' = nDetect + 1
                  /\ Goto("Augmenting")
                  /\ UNCHANGED <<context, pending, callIdx, output, result>>
    /\ ModelCalled(WithTools(GetToolDefinitions))
    /\ UNCHANGED <<fixedVars, userMessage, executed, failure, nSearch, events,
                   searchStatus>>

\* first_response = await self.llm_caller.invoke(messages, tools=tool_definitions)
\* followed by the uncertainty detection when there are no tool calls.
FirstPass ==
    /\ pc = "FirstPass"
    /\ \E resp \in ModelResponses :
          /\ first_response' = resp
          /\ Responded(resp.content)
          /\ firstHadTools' = (resp.tool_calls # <<>>)
          /\ firstContent' = resp.content
          /\ IF resp.tool_calls # <<>>
             THEN /\ BeginDispatch(resp)
                  /\ UNCHANGED nDetect
             ELSE /\ nDetect' = nDetect + 1
                  /\ IF MatchedPhrases(resp.content) # {}
                     THEN /\ Goto("Augmenting")
                          /\ UNCHANGED <<context, pending, callIdx, output, result>>
                     ELSE Finish(context, resp.content)
    /\ ModelCalled(WithTools(GetToolDefinitions))
    /\ UNCHANGED <<fixedVars, userMessage, executed, failure, nSearch, events,
                   searchStatus>>

FirstPassFail ==
    /\ pc = "FirstPass"
    /\ ModelUnavailable

\* A search that records the uncertain first answer before its note.
SearchOkKeepsAnswer ==
    /\ pc = "Augmenting"
    /\ nSearch' = nSearch + 1
    /\ searchStatus' = "ok"
    /\ \E digest \in Digests :
          context' = AppendSystemNote(
                         AppendAssistant(context, first_response.content, <<>>),
                         ToSystemNote(userMessage, digest))
    /\ Goto("SecondPass")
    /\ UNCHANGED <<fixedVars, userMessage, pending, first_response, callIdx,
                   executed, output, result, failure, nModel, calls, responses, nDetect, events,
                   firstHadTools, firstContent>>

\* search_result = client_tavily.search(query=search_query);
\* messages.append(search_message)
SearchOk ==
    /\ pc = "Augmenting"
    /\ nSearch' = nSearch + 1
    /\ searchStatus' = "ok"
    /\ \E digest \in Digests :
          context' = AppendSystemNote(context, ToSystemNote(userMessage, digest))
    /\ Goto("SecondPass")
    /\ UNCHANGED <<fixedVars, userMessage, pending, first_response, callIdx,
                   executed, output, result, failure, nModel, calls, responses, nDetect, events,
                   firstHadTools, firstContent>>

\* A failed search whose error is not caught.
SearchFailAbort ==
    /\ pc = "Augmenting"
    /\ nSearch' = nSearch + 1
    /\ searchStatus' = "failed"
    /\ Abort("SearchProviderError")
    /\ UNCHANGED <<fixedVars, userMessage, context, pending, callIdx,
                   first_response, executed, nModel, calls, responses, nDetect, events,
                   firstHadTools, firstContent>>

\* The search fails: the first answer stands.
SearchFail ==
    /\ pc = "Augmenting"
    /\ nSearch' = nSearch + 1
    /\ searchStatus' = "failed"
    /\ Finish(context, first_response.content)
    /\ UNCHANGED <<fixedVars, userMessage, first_response, executed, failure,
                   nModel, calls, responses, nDetect, events, firstHadTools, firstContent>>

\* A re-pass that searches again while the answer is still uncertain.
SecondPassRetry ==
    /\ pc = "SecondPass"
    /\ \E resp \in ModelResponses :
          /\ first_response' = resp
          /\ Responded(resp.content)
          /\ IF resp.tool_calls # <<>>
             THEN BeginDispatch(resp)
             ELSE IF MatchedPhrases(resp.content) # {}
                  THEN /\ Goto("Augmenting")
                       /\ UNCHANGED <<context, pending, callIdx, output, result>>
                  ELSE Finish(context, resp.content)
    /\ ModelCalled(NoToolsArg)
    /\ UNCHANGED <<fixedVars, userMessage, executed, failure, nSearch, nDetect,
                   events, firstHadTools, firstContent, searchStatus>>

\* A re-pass whose tool calls are dropped: its content is the answer.
SecondPassIgnoresTools ==
    /\ pc = "SecondPass"
    /\ \E resp \in ModelResponses :
          /\ first_response' = resp
          /\ Responded(resp.content)
          /\ Finish(context, resp.content)
    /\ ModelCalled(NoToolsArg)
    /\ UNCHANGED <<fixedVars, userMessage, executed, failure, nSearch, nDetect,
                   events, firstHadTools, firstContent, searchStatus>>

\* first_response = await self.llm_caller.invoke(messages)
SecondPass ==
    /\ pc = "SecondPass"
    /\ \E resp \in ModelResponses :
          /\ first_response' = resp
          /\ Responded(resp.content)
          /\ IF resp.tool_calls # <<>>
             THEN BeginDispatch(resp)
             ELSE Finish(context, resp.content)
    /\ ModelCalled(NoToolsArg)
    /\ UNCHANGED <<fixedVars, userMessage, executed, failure, nSearch, nDetect,
                   events, firstHadTools, firstContent, searchStatus>>

SecondPassFail ==
    /\ pc = "SecondPass"
    /\ ModelUnavailable

Event(op, tool_call, outcome, res) ==
    [op |-> op, id |-> tool_call.id, name |-> tool_call.name,
     outcome |-> outcome, raised |-> res.raised, text |-> res.text]

\* One iteration of `for tool_call in first_response["tool_calls"]`, on the
\* tool call at position `pos`: invoke_tool, then
\* update_context_with_tool_result.
DispatchStep(pos) ==
    /\ pc = "ToolDispatch"
    /\ callIdx <= Len(first_response.tool_calls)
    /\ \E outcome \in HandlerOutcomes :
        LET tool_call == first_response.tool_calls[pos]
            tool_result == InvokeTool(tool_call.name, outcome)
            upd == AppendToolResult(context, pending, tool_call.id,
                                    tool_call.name, tool_result.text)
        IN  IF tool_result.raised # ""
            THEN /\ events' = Append(events,
                                Event("invoke", tool_call, outcome, tool_result))
                 /\ Abort(tool_result.raised)
                 /\ UNCHANGED <<context, pending, callIdx, executed>>
            ELSE IF upd.err # ""
            THEN /\ events' = Append(events,
                                Event("invoke", tool_call, outcome, tool_result))
                 /\ Abort(upd.err)
                 /\ UNCHANGED <<context, pending, callIdx, executed>>
            ELSE /\ events' = events \o
                        <<Event("invoke", tool_call, outcome, tool_result),
                          Event("append", tool_call, outcome, tool_result)>>
                 /\ context' = upd.context
                 /\ pending' = upd.pending
                 /\ callIdx' = callIdx + 1
                 /\ executed' = Append(executed,
                        [name |-> tool_call.name, arguments |-> tool_call.arguments,
                         id |-> tool_call.id, result |-> tool_result.text])
                 /\ IF callIdx = Len(first_response.tool_calls)
                    THEN Goto("FinalPass")
                    ELSE UNCHANGED <<pc, entered>>
                 /\ UNCHANGED <<failure, output, result>>
    /\ UNCHANGED <<fixedVars, userMessage, first_response, nModel, calls, responses, nSearch,
                   nDetect, firstHadTools, firstContent, searchStatus>>

\* The loop taking the tool calls last to first.
ToolDispatchReversed ==
    DispatchStep(Len(first_response.tool_calls) + 1 - callIdx)

ToolDispatch == DispatchStep(callIdx)

\* A final pass that dispatches again when the model asks for more tools.
FinalPassLoop ==
    /\ pc = "FinalPass"
    /\ \E resp \in ModelResponses :
          /\ Responded(resp.content)
          /\ IF resp.tool_calls # <<>>
             THEN /\ first_response' = resp
                  /\ BeginDispatch(resp)
             ELSE /\ Finish(context, resp.content)
                  /\ UNCHANGED first_response
    /\ ModelCalled(NoToolsArg)
    /\ UNCHANGED <<fixedVars, userMessage, executed, failure, nSearch, nDetect,
                   events, firstHadTools, firstContent, searchStatus>>

\* A final pass whose response is dropped: the content of the response that
\* asked for the tools is the answer.
FinalPassKeepsFirst ==
    /\ pc = "FinalPass"
    /\ \E resp \in ModelResponses :
          /\ Responded(resp.content)
          /\ Finish(context, first_response.content)
    /\ ModelCalled(NoToolsArg)
    /\ UNCHANGED <<fixedVars, userMessage, first_response, executed, failure,
                   nSearch, nDetect, events, firstHadTools, firstContent,
                   searchStatus>>

\* final_response = await self.llm_caller.invoke(updated_messages)
FinalPass ==
    /\ pc = "FinalPass"
    /\ \E resp \in ModelResponses :
          /\ Responded(resp.content)
          /\ Finish(context, resp.content)
    /\ ModelCalled(NoToolsArg)
    /\ UNCHANGED <<fixedVars, userMessage, first_response, executed, failure,
                   nSearch, nDetect, events, firstHadTools, firstContent,
                   searchStatus>>

FinalPassFail ==
    /\ pc = "FinalPass"
    /\ ModelUnavailable

Next ==
    \/ StartTurn
    \/ FirstPass
    \/ FirstPassFail
    \/ SearchOk
    \/ SearchFail
    \/ SecondPass
    \/ SecondPassFail
    \/ ToolDispatch
    \/ FinalPass
    \/ FinalPassFail

Spec == Init /\ [][Next]_vars

-----------------------------------------------------------------------------
\* The context operations applied on their own, in any order

turnVars == <<tools, pc, userMessage, first_response, callIdx, executed, output,
              failure, entered, nModel, nSearch, nDetect, events, firstHadTools,
              firstContent, searchStatus, tool_defs, calls, result, conc,
              lastReg, responses, uiVars>>

\* `id` is the id of a tool call of an assistant message of ctx that no tool
\* message of ctx answers.
Unanswered(ctx, id) ==
    /\ \E a \in 1..Len(ctx) :
          ctx[a].role = "assistant" /\ id \in CallIds(ctx[a].toolCalls)
    /\ ~\E j \in 1..Len(ctx) : ctx[j].role = "tool" /\ ctx[j].toolCallId = id

\* n tool calls as the provider returns them: each with an id of its own.
FreshCalls(n) ==
    [k \in 1..n |->
        [id |-> "call_" \o IntToStr(idCount + k), name |-> "generate_ai_id",
         arguments |-> "{}"]]

CtxInitialize ==
    /\ context = <<>>
    /\ \E um \in UserMessages : context' = Initialize(SystemPrompt, um)
    /\ pending' = {}
    /\ lastOp' = [NoOp EXCEPT !.op = "initialize"]
    /\ UNCHANGED <<idCount, turnVars>>

CtxAppendAssistant ==
    /\ context # <<>>
    /\ Len(context) < MaxCtxLen
    /\ \E content \in {"", "Paris."}, n \in 0..MaxCalls :
          /\ context' = AppendAssistant(context, content, FreshCalls(n))
          /\ pending' = PendingAfterAssistant(pending, FreshCalls(n))
          /\ idCount' = idCount + n
    /\ lastOp' = [NoOp EXCEPT !.op = "appendAssistant", !.len = Len(context)]
    /\ UNCHANGED turnVars

CtxAppendToolResult ==
    /\ context # <<>>
    /\ Len(context) < MaxCtxLen
    /\ \E k \in 1..(idCount + 1) :
        LET toolCallId == "call_" \o IntToStr(k)
            upd == AppendToolResult(context, pending, toolCallId,
                                    "generate_ai_id", "AI-7F3D2E1A")
        IN  /\ context' = upd.context
            /\ pending' = upd.pending
            /\ lastOp' = [op |-> "appendToolResult", id |-> toolCallId,
                          unanswered |-> Unanswered(context, toolCallId),
                          err |-> upd.err, len |-> Len(context)]
    /\ UNCHANGED <<idCount, turnVars>>

CtxAppendSystemNote ==
    /\ context # <<>>
    /\ Len(context) < MaxCtxLen
    /\ \E digest \in Digests :
          context' = AppendSystemNote(context, ToSystemNote(context[2].content, digest))
    /\ lastOp' = [NoOp EXCEPT !.op = "appendSystemNote", !.len = Len(context)]
    /\ UNCHANGED <<pending, idCount, turnVars>>

CtxNext ==
    \/ CtxInitialize
    \/ CtxAppendAssistant
    \/ CtxAppendToolResult
    \/ CtxAppendSystemNote

CtxSpec == Init /\ [][CtxNext]_vars

-----------------------------------------------------------------------------
\* Two turns served by one AIAssistant: both use self.context_builder, and
\* each runs from one await to the next without interruption.

specVars == <<pc, userMessage, context, pending, first_response, callIdx,
              executed, output, failure, entered, nModel, nSearch, nDetect,
              events, firstHadTools, firstContent, searchStatus, lastOp,
              idCount, calls, result, lastReg, responses, uiVars>>

Owned(t, msgs) == [k \in 1..Len(msgs) |-> [turn |-> t, msg |-> msgs[k]]]

\* The responses of the model to a turn: at most one tool call.
ConcResponses ==
    [content : {"Paris.", "I DON'T KNOW."},
     tool_calls : {l \in ToolCallLists : Len(l) <= 1}]

\* The tool messages of the dispatch loop over `tool_calls`, the tool
\* functions behaving as `outs` says.
ToolResults(tool_calls, outs) ==
    [k \in 1..Len(tool_calls) |->
        Msg("tool", InvokeTool(tool_calls[k].name, outs[k]).text,
            tool_calls[k].id, tool_calls[k].name, <<>>)]

\* The user input is added to the conversation history.
ConcStart(t) ==
    /\ conc.t[t].pc = "Init"
    /\ \E um \in UserMessages :
        LET added == IF conc.cb = <<>>
                     THEN Initialize(SystemPrompt, um)
                     ELSE <<Msg("user", um, "", "", <<>>)>>
        IN  conc' = [conc EXCEPT !.cb = @ \o Owned(t, added),
                                 !.t[t].pc = "FirstPass",
                                 !.t[t].base = Len(conc.cb)]
    /\ UNCHANGED <<tools, tool_defs, specVars>>

\* The tool dispatch loop of turn t, then
\* updated_messages = self.context_builder.get_conversation_history().
ConcDispatch(t, resp, defs) ==
    \E outs \in [1..Len(resp.tool_calls) -> HandlerOutcomes] :
        LET cb2 == conc.cb
                     \o Owned(t, <<Msg("assistant", resp.content, "", "",
                                       resp.tool_calls)>>)
                     \o Owned(t, ToolResults(resp.tool_calls, outs))
        IN  conc' = [conc EXCEPT !.cb = cb2,
                                 !.t[t].pc = "FinalPass",
                                 !.t[t].defs = defs,
                                 !.t[t].sent = cb2]

ConcDone(t, content, defs, note) ==
    conc' = [conc EXCEPT !.cb = @ \o Owned(t, note)
                                   \o Owned(t, <<Msg("assistant", content, "", "", <<>>)>>),
                         !.t[t].pc = "Done",
                         !.t[t].defs = defs,
                         !.t[t].out = content]

\* The first LLM call of turn t returns; without tool calls the answer is
\* tested for uncertainty and the search runs before the next await.
ConcFirstPass(t) ==
    /\ conc.t[t].pc = "FirstPass"
    /\ \E resp \in ConcResponses :
        LET defs == WithTools(GetToolDefinitions)
        IN  IF resp.tool_calls # <<>>
            THEN ConcDispatch(t, resp, defs)
            ELSE IF MatchedPhrases(resp.content) # {}
            THEN \/ \E digest \in Digests :
                      conc' = [conc EXCEPT
                                 !.cb = @ \o Owned(t, <<Msg("system",
                                            ToSystemNote("query", digest), "", "", <<>>)>>),
                                 !.t[t].pc = "SecondPass",
                                 !.t[t].defs = defs]
                 \/ ConcDone(t, resp.content, defs, <<>>)
            ELSE ConcDone(t, resp.content, defs, <<>>)
    /\ UNCHANGED <<tools, tool_defs, specVars>>

\* The LLM call after the search returns.
ConcSecondPass(t) ==
    /\ conc.t[t].pc = "SecondPass"
    /\ \E resp \in ConcResponses :
          IF resp.tool_calls # <<>>
          THEN ConcDispatch(t, resp, conc.t[t].defs)
          ELSE ConcDone(t, resp.content, conc.t[t].defs, <<>>)
    /\ UNCHANGED <<tools, tool_defs, specVars>>

\* The final LLM call returns.
ConcFinalPass(t) ==
    /\ conc.t[t].pc = "FinalPass"
    /\ \E content \in {"Paris."} :
          ConcDone(t, content, conc.t[t].defs, <<>>)
    /\ UNCHANGED <<tools, tool_defs, specVars>>

\* An LLM call of turn t fails.
ConcFail(t) ==
    /\ conc.t[t].pc \in {"FirstPass", "SecondPass", "FinalPass"}
    /\ conc' = [conc EXCEPT !.t[t].pc = "Failed", !.t[t].out = ApologyText]
    /\ UNCHANGED <<tools, tool_defs, specVars>>

ConcNext ==
    \E t \in Turns :
        \/ ConcStart(t)
        \/ ConcFirstPass(t)
        \/ ConcSecondPass(t)
        \/ ConcFinalPass(t)
        \/ ConcFail(t)

ConcSpec == Init /\ [][ConcNext]_vars

-----------------------------------------------------------------------------
\* The registry on its own: tools registered one after the other, from the
\* default tools on.

RegNames == {"get_weather", "new_tool_name", "generate_frequency", "analyze_image"}
RegFuncs == {"new_tool_function", "generate_frequency"}
RegParams ==
    {<<>>, <<Param("param1", "string", FALSE), Param("param2", "integer", TRUE)>>}

RegRegister ==
    /\ \E name \in RegNames, func \in RegFuncs, parameters \in RegParams :
        LET r == RegisterTool(tools, tool_defs, name, func, "a new tool", parameters)
        IN  /\ tools' = r.tools
            /\ tool_defs' = r.tool_defs
            /\ lastReg' = [op |-> "register", name |-> name, func |-> func,
                           registered |-> name \in DOMAIN tools, err |-> r.err,
                           tools |-> tools, tool_defs |-> tool_defs]
    /\ UNCHANGED <<pc, userMessage, context, pending, first_response, callIdx,
                   executed, output, failure, entered, nModel, nSearch, nDetect,
                   events, firstHadTools, firstContent, searchStatus, lastOp,
                   idCount, calls, result, conc, responses, uiVars>>

RegNext == RegRegister

RegSpec == Init /\ [][RegNext]_vars

-----------------------------------------------------------------------------
\* A turn whose network calls are bounded by a timeout: every call of the
\* model and of the search returns or fails.  invoke_tool calls the tool
\* function without a timeout, so the dispatch loop is under no such
\* condition: a tool function may never return.

\* The timeouts without the one of the final pass.
TimeoutsButFinalPass ==
    /\ WF_vars(FirstPass \/ FirstPassFail)
    /\ WF_vars(SearchOk \/ SearchFail)
    /\ WF_vars(SecondPass \/ SecondPassFail)

Timeouts ==
    /\ WF_vars(FirstPass \/ FirstPassFail)
    /\ WF_vars(SearchOk \/ SearchFail)
    /\ WF_vars(SecondPass \/ SecondPassFail)
    /\ WF_vars(FinalPass \/ FinalPassFail)

FairSpec == Spec /\ Timeouts

-----------------------------------------------------------------------------
\* The chat UI: isLoading, the timers that reset it and the requests in
\* flight.  Time passes in steps of Tick, a divisor of every delay; a timer
\* that is due fires before time passes on.

Tick == 5 * 1000

\* setTimeout(..., 30000) of the isLoading effect of AiChatCore.
EFFECT_TIMEOUT == 30000
\* const SAFETY_TIMEOUT = 30000 of handleSubmit.
SAFETY_TIMEOUT == 30000
\* API_CONFIG.TIMEOUT
API_TIMEOUT == 60000
\* The margin of the loadingTimeoutId timer: API_CONFIG.TIMEOUT + 5000.
LOADING_MARGIN == 5000

\* setIsLoading(v) without the effect that depends on isLoading.
SetLoadingNoEffect(l, v) ==
    [l EXCEPT !.isLoading = v,
              !.age = IF v /\ l.isLoading THEN @ ELSE 0]

\* setIsLoading(v), and the effect that depends on isLoading: its cleanup
\* clears the safety timer, and a timer is set when isLoading is true.
SetLoading(l, v) ==
    [l EXCEPT !.isLoading = v,
              !.age = IF v /\ l.isLoading THEN @ ELSE 0,
              !.effectLeft = IF v = l.isLoading THEN @
                             ELSE IF v THEN EFFECT_TIMEOUT ELSE NoTimer]

Due(left) == left # NoTimer /\ left <= 0

Pending(r) == load.reqs[r].st = "pending"

\* The request of r is the file upload and API_TIMEOUT has passed since it
\* was sent: it is aborted.
AbortDue(r) ==
    /\ Pending(r)
    /\ load.reqs[r].kind = "upload"
    /\ load.reqs[r].loadingLeft <= LOADING_MARGIN

\* What is left of a timer after a step of time.
Later(left) == IF left = NoTimer THEN NoTimer ELSE left - Tick

loadOther ==
    <<tools, pc, userMessage, context, pending, first_response, callIdx,
      executed, output, failure, entered, nModel, nSearch, nDetect, events,
      firstHadTools, firstContent, searchStatus, lastOp, idCount, tool_defs,
      calls, result, conc, lastReg, responses, chat, typing, oauth>>

\* handleSubmit, called from the form: the send button is disabled while
\* isLoading.  Without attachments nothing is sent.
LoadSubmit ==
    /\ ~load.isLoading
    /\ \E r \in 1..MaxRequests, hasAttachments, useAgentChat \in BOOLEAN :
        /\ load.reqs[r].st = "idle"
        /\ \A q \in 1..(r - 1) : load.reqs[q].st # "idle"
        /\ IF hasAttachments
           THEN load' = [SetLoading(load, TRUE) EXCEPT
                    !.lastSubmit = "sent",
                    !.reqs[r] = [st |-> "pending",
                                 kind |-> IF useAgentChat THEN "upload" ELSE "json",
                                 safetyLeft |-> SAFETY_TIMEOUT,
                                 loadingLeft |-> API_TIMEOUT + LOADING_MARGIN]]
           ELSE load' = [SetLoading(load, FALSE) EXCEPT !.lastSubmit = "skipped"]
    /\ UNCHANGED loadOther

\* The request of r settles, with a response or an error (the abort of the
\* upload included): finally clears both timers and resets isLoading.
LoadSettle(r) ==
    /\ Pending(r)
    /\ load' = [SetLoading(load, FALSE) EXCEPT
                   !.reqs[r] = [IdleRequest EXCEPT !.st = "settled"]]
    /\ UNCHANGED loadOther

\* safetyTimeoutId of r fires.
LoadSafetyFire(r) ==
    /\ Due(load.reqs[r].safetyLeft)
    /\ load' = [SetLoading(load, FALSE) EXCEPT !.reqs[r].safetyLeft = NoTimer]
    /\ UNCHANGED loadOther

\* loadingTimeoutId of r fires.
LoadLoadingFire(r) ==
    /\ Due(load.reqs[r].loadingLeft)
    /\ load' = [SetLoading(load, FALSE) EXCEPT !.reqs[r].loadingLeft = NoTimer]
    /\ UNCHANGED loadOther

\* The safety timer of the isLoading effect fires.
LoadEffectFire ==
    /\ Due(load.effectLeft)
    /\ load' = SetLoading([load EXCEPT !.effectLeft = NoTimer], FALSE)
    /\ UNCHANGED loadOther

\* handleSelectConversation is called from the sidebar; its fetch has no
\* timeout.
LoadSelectStart ==
    /\ load.sel < 1
    /\ load' = [SetLoading(load, TRUE) EXCEPT !.sel = @ + 1]
    /\ UNCHANGED loadOther

LoadSelectSettle ==
    /\ load.sel > 0
    /\ load' = [SetLoading(load, FALSE) EXCEPT !.sel = @ - 1]
    /\ UNCHANGED loadOther

\* testApiConnection, from its button, disabled while isLoading.
LoadTestStart ==
    /\ ~load.isLoading
    /\ load.test.st = "idle"
    /\ load' = [SetLoading(load, TRUE) EXCEPT
                   !.test = [st |-> "pending", left |-> API_TIMEOUT]]
    /\ UNCHANGED loadOther

\* fetchWithTimeout settles, at the latest after API_TIMEOUT.
LoadTestSettle ==
    /\ load.test.st = "pending"
    /\ load' = [SetLoading(load, FALSE) EXCEPT
                   !.test = [st |-> "idle", left |-> NoTimer]]
    /\ UNCHANGED loadOther

\* Time passes.
LoadTick ==
    /\ ~Due(load.effectLeft)
    /\ ~Due(load.test.left)
    /\ \A r \in 1..MaxRequests :
          /\ ~Due(load.reqs[r].safetyLeft)
          /\ ~Due(load.reqs[r].loadingLeft)
          /\ ~AbortDue(r)
    /\ load' = [load EXCEPT
          !.age = IF load.isLoading /\ @ <= EFFECT_TIMEOUT THEN @ + Tick ELSE @,
          !.effectLeft = Later(@),
          !.test.left = Later(@),
          !.reqs = [r \in 1..MaxRequests |->
                      [@[r] EXCEPT !.safetyLeft = Later(@),
                                   !.loadingLeft = Later(@)]]]
    /\ UNCHANGED loadOther

LoadNext ==
    \/ LoadSubmit
    \/ \E r \in 1..MaxRequests : LoadSettle(r)
    \/ \E r \in 1..MaxRequests : LoadSafetyFire(r)
    \/ \E r \in 1..MaxRequests : LoadLoadingFire(r)
    \/ LoadEffectFire
    \/ LoadSelectStart
    \/ LoadSelectSettle
    \/ LoadTestStart
    \/ LoadTestSettle
    \/ LoadTick

LoadSpec == Init /\ [][LoadNext]_vars

-----------------------------------------------------------------------------
\* The chat UI: the conversation shown, its messages and the reply of a
\* request in flight.

\* The conversations the sidebar lists.
Conversations == {1, 2}

\* data.conversation.messages of a conversation fetched from the server.
StoredMessages(c) ==
    <<ChatMsg(c, "user", "question"), ChatMsg(c, "assistant", "answer")>>

chatOther ==
    <<tools, pc, userMessage, context, pending, first_response, callIdx,
      executed, output, failure, entered, nModel, nSearch, nDetect, events,
      firstHadTools, firstContent, searchStatus, lastOp, idCount, tool_defs,
      calls, result, conc, lastReg, responses, load, typing, oauth>>

\* handleSubmit up to its fetch: the user message is added and the request
\* is sent.
ChatSubmit ==
    /\ chat.req.st = "idle"
    /\ chat.sent < MaxSent
    /\ chat' = [chat EXCEPT
                  !.messages = Append(@, ChatMsg(chat.current, "user", "question")),
                  !.req = [st |-> "pending", conv |-> chat.current],
                  !.sent = @ + 1]
    /\ UNCHANGED chatOther

\* handleSubmit after its fetch: setMessages(prevMessages =>
\* [...prevMessages, assistantMessage]).
ChatReply ==
    /\ chat.req.st = "pending"
    /\ chat' = [chat EXCEPT
                  !.messages = Append(@, ChatMsg(chat.req.conv, "assistant", "reply")),
                  !.req.st = "idle"]
    /\ UNCHANGED chatOther

\* The fetch of handleSubmit fails: no message of the assistant is added.
ChatRequestFails ==
    /\ chat.req.st = "pending"
    /\ chat' = [chat EXCEPT !.req.st = "idle"]
    /\ UNCHANGED chatOther

\* handleSelectConversation up to its fetch.
ChatSelect(c) ==
    /\ chat.sel = 0
    /\ chat' = [chat EXCEPT !.current = c, !.messages = <<>>, !.sel = c]
    /\ UNCHANGED chatOther

\* handleSelectConversation after its fetch: setMessages(data.conversation.messages).
ChatSelectLoaded ==
    /\ chat.sel # 0
    /\ chat' = [chat EXCEPT !.messages = StoredMessages(chat.sel), !.sel = 0]
    /\ UNCHANGED chatOther

\* The fetch of handleSelectConversation fails.
ChatSelectFails ==
    /\ chat.sel # 0
    /\ chat' = [chat EXCEPT !.sel = 0]
    /\ UNCHANGED chatOther

\* handleCreateNewChat
ChatCreateNew ==
    /\ chat' = [chat EXCEPT !.current = 0, !.messages = WelcomeMessages]
    /\ UNCHANGED chatOther

ChatNext ==
    \/ ChatSubmit
    \/ ChatReply
    \/ ChatRequestFails
    \/ \E c \in Conversations : ChatSelect(c)
    \/ ChatSelectLoaded
    \/ ChatSelectFails
    \/ ChatCreateNew

ChatSpec == Init /\ [][ChatNext]_vars

-----------------------------------------------------------------------------
\* The OAuthCallback component.

STAGE_1_DELAY == 400
STAGE_2_DELAY == 400
STAGE_3_DELAY == 600
LOGIN_REDIRECT_DELAY == 3000

\* The step of time of the component: every delay is a multiple of it.
OAuthTickMs == 2 * 100

oauthOther ==
    <<tools, pc, userMessage, context, pending, first_response, callIdx,
      executed, output, failure, entered, nModel, nSearch, nDetect, events,
      firstHadTools, firstContent, searchStatus, lastOp, idCount, tool_defs,
      calls, result, conc, lastReg, responses, load, chat, typing>>

\* catch (err) and finally of processOAuthCallback, on the state o.
OAuthFailed(o, errorMessage) ==
    [o EXCEPT !.error = errorMessage, !.timer = LOGIN_REDIRECT_DELAY,
              !.since = 0, !.loading = FALSE, !.pc = "failed"]

\* currentProvider
OAuthProvider(path) ==
    IF path = "/oauth/google/callback" THEN "google"
    ELSE IF path = "/oauth/github/callback" THEN "github"
    ELSE "null"

\* processOAuthCallback up to its first await, for the location read.
OAuthProcess(path, code, error) ==
    LET o == [oauth EXCEPT !.codeProcessed = TRUE, !.runs = @ + 1] IN
    oauth' =
        IF error # "null" THEN OAuthFailed(o, error)
        ELSE IF code = "null" \/ OAuthProvider(path) = "null"
        THEN OAuthFailed(o, "missing parameters")
        ELSE [o EXCEPT !.called = Append(@, OAuthProvider(path)),
                       !.pc = "request"]

\* The effect without the test of codeProcessed.current.
OAuthEffectUnguarded(path, code, error) ==
    /\ oauth.runs < MaxEffectRuns
    /\ OAuthProcess(path, code, error)
    /\ UNCHANGED oauthOther

\* The effect of OAuthCallback: at mount and at every change of location.
OAuthEffect(path, code, error) ==
    /\ oauth.runs < MaxEffectRuns
    /\ IF oauth.codeProcessed
       THEN oauth' = [oauth EXCEPT !.runs = @ + 1]
       ELSE OAuthProcess(path, code, error)
    /\ UNCHANGED oauthOther

\* handleGoogleCallback or handleGithubCallback returns response.data.
OAuthCallbackReturns(hasUserData) ==
    /\ oauth.pc = "request"
    /\ oauth' =
        IF hasUserData
        THEN [oauth EXCEPT !.loadingStage = 1, !.stages = Append(@, 1),
                           !.timer = STAGE_1_DELAY, !.pc = "stage1"]
        ELSE OAuthFailed(oauth, "no user data")
    /\ UNCHANGED oauthOther

\* handleGoogleCallback or handleGithubCallback throws.
OAuthCallbackThrows(errorMessage) ==
    /\ oauth.pc = "request"
    /\ oauth' = OAuthFailed(oauth, errorMessage)
    /\ UNCHANGED oauthOther

\* The animation without the setLoading(false) of finally.
OAuthStageTimerNoFinally ==
    /\ oauth.timer = 0
    /\ oauth.pc \in {"stage1", "stage2", "stage3"}
    /\ oauth' =
        IF oauth.pc = "stage1"
        THEN [oauth EXCEPT !.loadingStage = 2, !.stages = Append(@, 2),
                           !.timer = STAGE_2_DELAY, !.pc = "stage2"]
        ELSE IF oauth.pc = "stage2"
        THEN [oauth EXCEPT !.loadingStage = 3, !.stages = Append(@, 3),
                           !.timer = STAGE_3_DELAY, !.pc = "stage3"]
        ELSE [oauth EXCEPT !.navs = Append(@, "/"), !.timer = NoTimer,
                           !.pc = "done"]
    /\ UNCHANGED oauthOther

\* A delay of the animation ends: the next stage, and at the end
\* navigate('/') and the setLoading(false) of finally.
OAuthStageTimer ==
    /\ oauth.timer = 0
    /\ oauth.pc \in {"stage1", "stage2", "stage3"}
    /\ oauth' =
        IF oauth.pc = "stage1"
        THEN [oauth EXCEPT !.loadingStage = 2, !.stages = Append(@, 2),
                           !.timer = STAGE_2_DELAY, !.pc = "stage2"]
        ELSE IF oauth.pc = "stage2"
        THEN [oauth EXCEPT !.loadingStage = 3, !.stages = Append(@, 3),
                           !.timer = STAGE_3_DELAY, !.pc = "stage3"]
        ELSE [oauth EXCEPT !.navs = Append(@, "/"), !.timer = NoTimer,
                           !.loading = FALSE, !.pc = "done"]
    /\ UNCHANGED oauthOther

\* The timer set after setError ends: navigate('/login').
OAuthLoginTimer ==
    /\ oauth.timer = 0
    /\ oauth.pc = "failed"
    /\ oauth' = [oauth EXCEPT !.navs = Append(@, "/login"),
                              !.timer = NoTimer, !.pc = "done"]
    /\ UNCHANGED oauthOther

\* Time passes; a delay that has ended is served first.
OAuthTick ==
    /\ oauth.timer > 0
    /\ oauth' = [oauth EXCEPT
                   !.timer = @ - OAuthTickMs,
                   !.since = IF oauth.pc = "failed" THEN @ + OAuthTickMs ELSE @]
    /\ UNCHANGED oauthOther

\* What location.pathname and the parameters code and error can hold.
OAuthPaths == {"/oauth/google/callback", "/oauth/github/callback", "/oauth/callback"}
OAuthCodes == {"null", "code"}
OAuthErrors == {"null", "access_denied"}

OAuthNext ==
    \/ \E path \in OAuthPaths, code \in OAuthCodes, error \in OAuthErrors :
          OAuthEffect(path, code, error)
    \/ \E hasUserData \in BOOLEAN : OAuthCallbackReturns(hasUserData)
    \/ \E errorMessage \in {"login failed", "code expired"} :
          OAuthCallbackThrows(errorMessage)
    \/ OAuthStageTimer
    \/ OAuthLoginTimer
    \/ OAuthTick

OAuthSpec == Init /\ [][OAuthNext]_vars

\* The effect runs at mount, the request of the callback is answered, time
\* passes and timers that are due run.
FairOAuthSpec == OAuthSpec /\ WF_vars(OAuthNext)

-----------------------------------------------------------------------------
\* The typing effect of the chat UI. A string is the sequence of its
\* characters.

\* The replies the server can send: two plain texts and a JSON object with
\* a response field.
TypedContents ==
    {<<"h", "i">>, <<"o", "k", "!">>, <<"{", "h", "i", "}">>}

\* extractResponseContent: the response field of a JSON object, else the
\* content as it is.
ExtractResponseContent(content) ==
    IF Len(content) > 2 /\ content[1] = "{" /\ content[Len(content)] = "}"
    THEN SubSeq(content, 2, Len(content) - 1)
    ELSE content

\* processedMessages
ProcessedMessages(messages) ==
    [j \in 1..Len(messages) |->
        IF ExtractResponseContent(messages[j].content) # messages[j].content
        THEN [messages[j] EXCEPT
                !.content = ExtractResponseContent(messages[j].content),
                !.displayedContent =
                    IF messages[j].isTyping THEN <<>>
                    ELSE ExtractResponseContent(messages[j].content)]
        ELSE messages[j]]

typingOther ==
    <<tools, pc, userMessage, context, pending, first_response, callIdx,
      executed, output, failure, entered, nModel, nSearch, nDetect, events,
      firstHadTools, firstContent, searchStatus, lastOp, idCount, tool_defs,
      calls, result, conc, lastReg, responses, load, chat, oauth>>

\* handleSubmit adds the reply: isTyping true, displayedContent ''.
TypingAdd(content) ==
    /\ Len(typing.messages) < MaxTyped
    /\ typing' = [typing EXCEPT
                    !.messages = Append(@, [content |-> content,
                                            displayedContent |-> <<>>,
                                            isTyping |-> TRUE]),
                    !.index = Append(@, NoTimer),
                    !.stale = TRUE]
    /\ UNCHANGED typingOther

\* The typing effect runs after messages changed: the cleanup of its last
\* run clears every interval; JSON contents are replaced and the effect
\* returns, or an interval is started at currentIndex 0 for every message
\* that is typing.
TypingEffect ==
    /\ typing.stale
    /\ typing' =
        IF ProcessedMessages(typing.messages) # typing.messages
        THEN [typing EXCEPT
                !.messages = ProcessedMessages(typing.messages),
                !.index = [j \in 1..Len(typing.messages) |-> NoTimer]]
        ELSE [typing EXCEPT
                !.index = [j \in 1..Len(typing.messages) |->
                              IF typing.messages[j].isTyping THEN 0 ELSE NoTimer],
                !.stale = FALSE]
    /\ UNCHANGED typingOther

\* The interval of message i ticks; it can tick again before the effect has
\* run for the messages it changed.
TypingInterval(i) ==
    /\ i \in 1..Len(typing.messages)
    /\ typing.index[i] # NoTimer
    /\ LET currentIndex == typing.index[i]
           messageContent == typing.messages[i].content
       IN typing' = [typing EXCEPT
                !.messages[i].displayedContent = SubSeq(messageContent, 1, currentIndex),
                !.messages[i].isTyping = currentIndex < Len(messageContent),
                !.index[i] = IF currentIndex + 1 > Len(messageContent)
                             THEN NoTimer ELSE currentIndex + 1,
                !.stale = TRUE]
    /\ UNCHANGED typingOther

TypingNext ==
    \/ \E content \in TypedContents : TypingAdd(content)
    \/ TypingEffect
    \/ \E i \in 1..MaxTyped : TypingInterval(i)

TypingSpec == Init /\ [][TypingNext]_vars

\* The effect runs after every change of messages and every interval that
\* is set ticks.
FairTypingSpec ==
    /\ TypingSpec
    /\ WF_vars(TypingEffect)
    /\ \A i \in 1..MaxTyped : WF_vars(TypingInterval(i))

-----------------------------------------------------------------------------
\* Properties of one turn

PhaseRank(p) ==
    CASE p = "Init" -> 0
      [] p = "FirstPass" -> 1
      [] p = "Augmenting" -> 2
      [] p = "SecondPass" -> 3
      [] p = "ToolDispatch" -> 4
      [] p = "FinalPass" -> 5
      [] OTHER -> 6

IsTool(m) == m.role = "tool"
ToolMsgs(ctx) == SelectSeq(ctx, IsTool)
IsInvoke(e) == e.op = "invoke"
Invocations == SelectSeq(events, IsInvoke)

\* C1: the transitions of a turn are linear: the position only moves forward
\* through Init, FirstPass, Augmenting, SecondPass, ToolDispatch, FinalPass,
\* Done, so FirstPass is never re-entered and every phase is entered at most
\* once.
C1_LinearTransitions ==
    /\ [](\A p \in Phases : entered[p] <= 1)
    /\ [][pc' # pc => PhaseRank(pc') > PhaseRank(pc)]_vars

\* A turn that went through every phase and is done.
C1_Witness ==
    /\ pc = "Done"
    /\ \A p \in Phases : entered[p] = 1

\* C2: the search is called at most once in a turn, however many phrases
\* match and whatever the re-pass answers.
C2_AtMostOneSearch == nSearch <= 1

\* A finished turn whose first answer matched two phrases, which searched, and
\* whose re-pass answer is uncertain again.
C2_Witness ==
    /\ pc = "Done"
    /\ nSearch = 1
    /\ Cardinality(MatchedPhrases(firstContent)) = 2
    /\ entered["SecondPass"] = 1
    /\ first_response.tool_calls = <<>>
    /\ MatchedPhrases(first_response.content) # {}

\* C3: when the first pass returns tool calls, the uncertainty detection and
\* the search never run in that turn, and the turn goes from FirstPass
\* directly to ToolDispatch.
C3_NoAugmentOnToolCalls ==
    firstHadTools =>
        /\ nDetect = 0
        /\ nSearch = 0
        /\ entered["Augmenting"] = 0
        /\ entered["SecondPass"] = 0
        /\ entered["ToolDispatch"] = 1

\* A finished turn whose first response carried tool calls and an uncertain
\* content.
C3_Witness ==
    /\ pc = "Done"
    /\ firstHadTools
    /\ MatchedPhrases(firstContent) # {}

\* C4: a pass that fails with ModelUnavailableError ends the turn in a failure
\* handed to the caller; the failed pass is not retried and no model, search
\* or tool call follows it; after a failure of the first pass no search and
\* no tool dispatch has run.
C4_ModelFailureFatal ==
    /\ [](failure = "ModelUnavailableError" =>
            /\ pc = "Failed"
            /\ output = ApologyText
            /\ nModel = entered["FirstPass"] + entered["SecondPass"]
                            + entered["FinalPass"]
            /\ (nModel = 1 =>
                    /\ nSearch = 0
                    /\ events = <<>>
                    /\ entered["Augmenting"] = 0
                    /\ entered["ToolDispatch"] = 0))
    /\ [][failure = "ModelUnavailableError" =>
            /\ pc' = pc
            /\ nModel' = nModel
            /\ nSearch' = nSearch
            /\ events' = events]_vars

\* The final pass failed after tools were executed.
C4_Witness ==
    /\ failure = "ModelUnavailableError"
    /\ nModel = 3
    /\ Len(executed) = 2

\* C5: a failed search does not abort the turn: no system note is appended,
\* no re-pass is issued, and the turn is done with the first response as its
\* output.
C5_SearchFailureFallsBack ==
    searchStatus = "failed" =>
        /\ pc = "Done"
        /\ failure = ""
        /\ output = firstContent
        /\ first_response.content = firstContent
        /\ entered["SecondPass"] = 0
        /\ nModel = 1
        /\ \A j \in 2..Len(context) : context[j].role # "system"

\* A turn done after its search failed.
C5_Witness ==
    /\ searchStatus = "failed"
    /\ pc = "Done"
    /\ MatchedPhrases(output) # {}

\* C6: a failing tool function never aborts the turn: the dispatch loop only
\* ends by reaching the final pass, no error other than an unavailable model
\* ends a turn, and once the loop is over every tool call of the active
\* response has been invoked and has its tool message, in the same order.
C6_ToolFailureNotFatal ==
    /\ failure \in {"", "ModelUnavailableError"}
    /\ (pc = "ToolDispatch" => callIdx <= Len(first_response.tool_calls))
    /\ (entered["ToolDispatch"] = 1 /\ pc # "ToolDispatch" =>
            /\ entered["FinalPass"] = 1
            /\ Len(Invocations) = Len(first_response.tool_calls)
            /\ Len(ToolMsgs(context)) = Len(first_response.tool_calls)
            /\ \A k \in 1..Len(first_response.tool_calls) :
                  /\ Invocations[k].id = first_response.tool_calls[k].id
                  /\ ToolMsgs(context)[k].toolCallId = first_response.tool_calls[k].id
                  /\ ToolMsgs(context)[k].content = Invocations[k].text)

\* A finished turn whose first tool call failed and whose second one ran.
C6_Witness ==
    /\ pc = "Done"
    /\ Len(executed) = 2
    /\ Len(Invocations) = 2
    /\ Invocations[1].name \in DOMAIN tools
    /\ Invocations[1].outcome.kind = "raise"
    /\ Invocations[2].outcome.kind = "return"

\* C7: invoke_tool on a registered name never raises: it returns the text of
\* the function's result when the function returns (42 gives "42", a string
\* gives itself), and a text that embeds the failure reason when it raises.
C7_InvokeRegisteredTotal ==
    \A k \in 1..Len(Invocations) :
        LET e == Invocations[k]
        IN  e.name \in DOMAIN tools =>
              /\ e.raised = ""
              /\ (e.outcome = Return(IntVal(42)) => e.text = "42")
              /\ (e.outcome = Return(StrVal("AI-7F3D2E1A")) => e.text = "AI-7F3D2E1A")
              /\ (e.outcome.kind = "raise" =>
                     /\ Contains(e.text, e.outcome.msg)
                     /\ Len(e.text) > Len(e.outcome.msg))

\* A registered tool returned the integer 42 and another call raised.
C7_Witness ==
    /\ Len(Invocations) = 2
    /\ \A k \in 1..2 : Invocations[k].name \in DOMAIN tools
    /\ Invocations[1].outcome = Return(IntVal(42))
    /\ Invocations[2].outcome.kind = "raise"

C9_SequentialInOrder ==
    /\ \A j \in 1..Len(events) :
          /\ (j + 1) \div 2 <= Len(first_response.tool_calls)
          /\ events[j].op = (IF j % 2 = 1 THEN "invoke" ELSE "append")
          /\ events[j].id = first_response.tool_calls[(j + 1) \div 2].id
          /\ events[j].name = first_response.tool_calls[(j + 1) \div 2].name
    /\ Len(ToolMsgs(context)) = Len(events) \div 2
    /\ \A k \in 1..Len(ToolMsgs(context)) :
          /\ ToolMsgs(context)[k].toolCallId = first_response.tool_calls[k].id
          /\ ToolMsgs(context)[k].name = first_response.tool_calls[k].name

\* Two different tools were dispatched and the turn is done.
C9_Witness ==
    /\ pc = "Done"
    /\ Len(events) = 4
    /\ first_response.tool_calls[1].name # first_response.tool_calls[2].name

-----------------------------------------------------------------------------
\* Properties of the context operations

\* The tool calls of assistant messages before position j that carry `id`.
PriorCalls(ctx, j, id) ==
    {<<a, k>> \in (1..(j - 1)) \X (1..MaxCalls) :
        /\ ctx[a].role = "assistant"
        /\ k <= Len(ctx[a].toolCalls)
        /\ ctx[a].toolCalls[k].id = id}

\* C10: appendToolResult succeeds exactly when its id is the id of a tool call
\* appended earlier in the cycle and not answered yet, and then appends the
\* tool message with that id; otherwise it fails with DanglingToolResultError
\* and appends nothing.  So every tool message carries the id of exactly one
\* earlier tool call, and no id is answered twice.
C10_ToolResultRoundTrip ==
    /\ lastOp.op = "appendToolResult" =>
          IF lastOp.unanswered
          THEN /\ lastOp.err = ""
               /\ Len(context) = lastOp.len + 1
               /\ context[Len(context)].role = "tool"
               /\ context[Len(context)].toolCallId = lastOp.id
          ELSE /\ lastOp.err = "DanglingToolResultError"
               /\ Len(context) = lastOp.len
    /\ \A j \in 1..Len(context) :
          context[j].role = "tool" =>
              /\ Cardinality(PriorCalls(context, j, context[j].toolCallId)) = 1
              /\ \A i \in 1..Len(context) :
                    (i # j /\ context[i].role = "tool")
                        => context[i].toolCallId # context[j].toolCallId
    /\ \A id \in pending : Unanswered(context, id)

\* A result for an id that was already answered has just been refused.
C10_Witness ==
    /\ lastOp.op = "appendToolResult"
    /\ lastOp.err = "DanglingToolResultError"
    /\ \E j \in 1..Len(context) :
          context[j].role = "tool" /\ context[j].toolCallId = lastOp.id

\* C11: the context is append-only: every operation on it leaves the context
\* it found as an unchanged prefix of the context it produces, so every
\* earlier snapshot is a prefix of every later one.
C11_AppendOnly ==
    [][/\ Len(context) <= Len(context')
       /\ SubSeq(context', 1, Len(context)) = context]_vars

\* A context that went through all four operations: an assistant message with
\* a tool call, its tool result and a system note after them.
C11_Witness ==
    /\ Len(context) = MaxCtxLen
    /\ \E a, j, n \in 3..Len(context) :
          /\ a < j /\ j < n
          /\ context[a].role = "assistant" /\ context[a].toolCalls # <<>>
          /\ context[j].role = "tool"
          /\ context[n].role = "system"

\* C13 as stated: at most one model pass occurs in addition to the first.
C13_AtMostOneMore == nModel <= 2

\* C13: at most two model passes occur in addition to the first: at most one
\* re-pass after a search and at most one final pass after the tool dispatch;
\* three passes occur only when the search succeeded and the re-pass asked
\* for tools.
C13_AtMostTwoMore ==
    /\ nModel <= entered["FirstPass"] + entered["SecondPass"] + entered["FinalPass"]
    /\ \A p \in {"FirstPass", "SecondPass", "FinalPass"} : entered[p] <= 1
    /\ nModel = 3 =>
          /\ ~firstHadTools
          /\ searchStatus = "ok"
          /\ first_response.tool_calls # <<>>
          /\ entered["ToolDispatch"] = 1
    /\ \A k \in 2..Len(calls) : ~calls[k].given

\* A turn that made three model passes and is done.
C13_Witness ==
    /\ pc = "Done"
    /\ nModel = 3
    /\ Len(calls) = 3

\* C14: when a turn fails, the caller receives the apology as the only
\* message: no executed tool call, no context and no text of a tool result
\* comes with it, also when tools had already run before the failure.
C14_FatalApology ==
    pc = "Failed" =>
        /\ failure # ""
        /\ ~result.ok
        /\ result.assistantText = ApologyText
        /\ result.toolCallsExecuted = <<>>
        /\ result.updatedHistory = <<>>
        /\ \A k \in 1..Len(executed) :
              ~Contains(result.assistantText, executed[k].result)

\* The final pass failed after the dispatch loop had run two tools.
C14_Witness ==
    /\ pc = "Failed"
    /\ failure = "ModelUnavailableError"
    /\ entered["FinalPass"] = 1
    /\ Len(executed) >= 2
    /\ Len(ToolMsgs(context)) >= 2

\* The place of the message at position j in the causal order: system,
\* user, search note, assistant carrying tool calls, tool result, final
\* assistant.
CausalRank(ctx, j) ==
    CASE ctx[j].role = "system" -> IF j = 1 THEN 1 ELSE 3
      [] ctx[j].role = "user" -> 2
      [] ctx[j].role = "assistant" -> IF ctx[j].toolCalls # <<>> THEN 4 ELSE 6
      [] ctx[j].role = "tool" -> 5

C18_PlainAnswerDone ==
    (/\ entered["FirstPass"] = 1
     /\ pc # "FirstPass"
     /\ failure = ""
     /\ ~firstHadTools
     /\ MatchedPhrases(firstContent) = {})
        => /\ pc = "Done"
           /\ output = firstContent
           /\ result.ok
           /\ result.assistantText = firstContent
           /\ nModel = 1
           /\ Len(calls) = 1
           /\ nSearch = 0
           /\ events = <<>>
           /\ executed = <<>>
           /\ \A p \in Phases \ {"FirstPass"} : entered[p] = 0

\* A turn answered plainly by the first pass.
C18_Witness ==
    /\ pc = "Done"
    /\ ~firstHadTools
    /\ firstContent = "Paris."
    /\ MatchedPhrases(firstContent) = {}
    /\ output = "Paris."

Terminated == pc \in {"Done", "Failed"}

C21_DispatchIffToolCalls ==
    /\ entered["ToolDispatch"] = 1 <=> first_response.tool_calls # <<>>
    /\ (entered["ToolDispatch"] = 1 /\ ~firstHadTools) =>
          /\ searchStatus = "ok"
          /\ entered["SecondPass"] = 1
          /\ nModel >= 2
    /\ entered["FinalPass"] = 1 => entered["ToolDispatch"] = 1
    /\ (pc = "Done" /\ entered["ToolDispatch"] = 1) => entered["FinalPass"] = 1
    /\ pc = "ToolDispatch" => callIdx <= Len(first_response.tool_calls)

\* The re-pass asked for tools: the loop has run them and the final pass is
\* next.
C21_Witness ==
    /\ pc = "FinalPass"
    /\ searchStatus = "ok"
    /\ ~firstHadTools
    /\ Len(executed) = Len(first_response.tool_calls)
    /\ Len(executed) >= 1

\* C22: the assistant text of a finished turn is the content of the last
\* response the model returned in the turn: of the final pass when the
\* dispatch loop ran, else of the re-pass when the search succeeded, else of
\* the first pass.
C22_LastResponseIsAnswer ==
    pc = "Done" =>
        /\ Len(responses) = nModel
        /\ output = responses[Len(responses)]
        /\ result.assistantText = responses[Len(responses)]
        /\ Len(responses) = 1 + (IF searchStatus = "ok" THEN 1 ELSE 0)
                              + entered["ToolDispatch"]
        /\ entered["ToolDispatch"] = 1 => entered["FinalPass"] = 1
        /\ (entered["ToolDispatch"] = 0 /\ searchStatus # "ok") =>
              output = firstContent

\* A finished turn with three responses, the last one differing from the
\* two before it.
C22_Witness ==
    /\ pc = "Done"
    /\ Len(responses) = 3
    /\ responses[3] # responses[2]
    /\ responses[3] # responses[1]
    /\ output = responses[3]

\* C23: the tool definitions are handed to the model on the first pass only:
\* the first call of a turn is given the definitions of the registered tools,
\* every later call (re-pass, final pass) is given none.
C23_ToolsOnFirstPassOnly ==
    /\ Len(calls) = nModel
    /\ \A k \in 1..Len(calls) :
          IF k = 1
          THEN /\ calls[k].given
               /\ WireNames(calls[k].defs) = <<"get_weather", "generate_ai_id">>
          ELSE /\ ~calls[k].given
               /\ calls[k].defs = <<>>

\* Three calls were made, the last of which failed.
C23_Witness ==
    /\ Len(calls) = 3
    /\ calls[1].given
    /\ ~calls[2].given
    /\ ~calls[3].given
    /\ failure = "ModelUnavailableError"

\* `phrase` occurs in `content` when the case of letters is disregarded.
OccursIgnoringCase(content, phrase) ==
    \E k \in 1..(Len(content) - Len(phrase) + 1) :
        Lower(SubSeq(content, k, k + Len(phrase) - 1)) = Lower(phrase)

-----------------------------------------------------------------------------
\* Properties of turns served at the same time

\* C12: turns served at the same time share no mutable state: the messages
\* handed to the model in the final pass of a turn were, from the point where
\* the turn began, all added by that turn.
C12_TurnsIsolated ==
    \A t \in Turns :
        \A j \in 1..Len(conc.t[t].sent) :
            j > conc.t[t].base => conc.t[t].sent[j].turn = t

-----------------------------------------------------------------------------
\* Properties of the registry

\* C17: registering a name that is already registered fails with
\* DuplicateToolError and changes nothing; a new name is added after the
\* others.  So every registered name has one definition and one function.
C17_DuplicateRejected ==
    /\ lastReg.op = "register" =>
          IF lastReg.registered
          THEN /\ lastReg.err = "DuplicateToolError"
               /\ tools = lastReg.tools
               /\ tool_defs = lastReg.tool_defs
          ELSE /\ lastReg.err = ""
               /\ tools[lastReg.name] = lastReg.func
               /\ \A n \in DOMAIN lastReg.tools : tools[n] = lastReg.tools[n]
               /\ SubSeq(tool_defs, 1, Len(lastReg.tool_defs)) = lastReg.tool_defs
               /\ Len(tool_defs) = Len(lastReg.tool_defs) + 1
               /\ tool_defs[Len(tool_defs)].name = lastReg.name
    /\ \A i, j \in 1..Len(tool_defs) :
          tool_defs[i].name = tool_defs[j].name => i = j
    /\ DOMAIN tools = {tool_defs[k].name : k \in 1..Len(tool_defs)}

\* A tool registered after the default tools has just been registered again,
\* with another function.
C17_Witness ==
    /\ lastReg.op = "register"
    /\ lastReg.registered
    /\ lastReg.name = "new_tool_name"
    /\ lastReg.func # tools["new_tool_name"]
    /\ lastReg.err = "DuplicateToolError"

-----------------------------------------------------------------------------
\* Properties of the chat UI

\* C25: isLoading never stays true for more than 30 seconds: whenever it
\* becomes true it is false again at the latest when the safety timer of the
\* isLoading effect is due, whether the requests in flight settle or not.
C25_LoadingResets ==
    /\ load.isLoading => load.age <= EFFECT_TIMEOUT
    /\ load.isLoading <=> load.effectLeft # NoTimer
    /\ load.isLoading => load.effectLeft = EFFECT_TIMEOUT - load.age

\* isLoading has been true for 30 seconds while the fetch of
\* handleSelectConversation, which has no timer of its own, has not returned.
C25_Witness ==
    /\ load.isLoading
    /\ load.age = EFFECT_TIMEOUT
    /\ load.sel > 0
    /\ \A r \in 1..MaxRequests : ~Pending(r)
    /\ load.test.st = "idle"

\* C28: while a request of handleSubmit is pending isLoading is true, so that
\* no second request is started before the first has settled.
C28_OneRequestPending ==
    /\ \A r \in 1..MaxRequests : Pending(r) => load.isLoading
    /\ Cardinality({r \in 1..MaxRequests : Pending(r)}) <= 1

\* C27: a reply is added only to the messages of the conversation that was
\* current when its request was submitted: every message shown belongs to
\* the conversation shown.
C27_ReplyInOwnConversation ==
    \A j \in 1..Len(chat.messages) :
        chat.messages[j].content = "reply" =>
            chat.messages[j].conv = chat.current

\* C26: a mounted OAuthCallback processes the authorization code at most
\* once, however often its effect runs: handleGoogleCallback and
\* handleGithubCallback are called at most once together, and only by the
\* first run of the effect.
C26_CodeProcessedOnce ==
    /\ Len(oauth.called) <= 1
    /\ oauth.runs > 0 => oauth.codeProcessed

\* The effect has run again after the code was sent.
C26_Witness ==
    /\ oauth.runs = MaxEffectRuns
    /\ Len(oauth.called) = 1

OAuthSucceeded ==
    /\ oauth.navs = <<"/">>
    /\ oauth.stages = <<1, 2, 3>>
    /\ oauth.loadingStage = 3
    /\ oauth.error = "null"
    /\ ~oauth.loading

OAuthRejected ==
    /\ oauth.navs = <<"/login">>
    /\ oauth.error # "null"
    /\ oauth.loadingStage # 3
    /\ oauth.since = LOGIN_REDIRECT_DELAY
    /\ ~oauth.loading

\* C30: OAuthCallback ends in exactly one of two outcomes. Success:
\* loadingStage goes through 1, 2, 3 in order and navigate('/') follows.
\* Failure: error is set, loadingStage never reaches 3 and navigate('/login')
\* follows 3 seconds later. loading is false at the end of both.
C30_OneOutcome ==
    /\ <>[](OAuthSucceeded \/ OAuthRejected)
    /\ [](oauth.error # "null" => oauth.loadingStage # 3 /\ ~oauth.loading)
    /\ [](Len(oauth.navs) <= 1)

\* The login succeeded after the effect ran again during the animation.
C30_Witness ==
    /\ OAuthSucceeded
    /\ oauth.runs > 1

\* s is the beginning of t.
IsPrefix(s, t) == Len(s) <= Len(t) /\ s = SubSeq(t, 1, Len(s))

\* C29: every assistant message added with the typing effect eventually has
\* displayedContent equal to its content and isTyping false; until then
\* its displayedContent is a prefix of its content.
C29_TypingCompletes ==
    /\ \A i \in 1..MaxTyped :
          (i <= Len(typing.messages) /\ typing.messages[i].isTyping)
              ~> (/\ i <= Len(typing.messages)
                  /\ ~typing.messages[i].isTyping
                  /\ typing.messages[i].displayedContent
                        = typing.messages[i].content)
    /\ [](\A i \in 1..Len(typing.messages) :
            IsPrefix(typing.messages[i].displayedContent,
                     typing.messages[i].content))

====
